---- MODULE Spec2Model ----
(***************************************************************************)
(* Model of src/main.py: the POST /analyze handler (analyze_issues), the   *)
(* upload validator (process_files, determine_mime_type), the description  *)
(* check (validate_description), the remote call with reply normalisation  *)
(* (analyze_with_openai) and the HTTPException handler.                    *)
(*                                                                         *)
(* One request is followed from the entry of analyze_issues to its         *)
(* response.  Requests are independent (no shared mutable state), so one   *)
(* request at a time is the whole behaviour of the program.                *)
(***************************************************************************)
EXTENDS Integers, Sequences, FiniteSets, TLC

(***************************************************************************)
(* Program constants.                                                      *)
(***************************************************************************)
\* main.py:332  len(description) <= 2000
MaxDescriptionLen == 2000
\* main.py:434  len(files) > 10
MaxImages == 10
\* main.py:274  max_size = 20 * 1024 * 1024
max_size == 20 * 1024 * 1024

(***************************************************************************)
(* Bounds of the explored inputs.                                          *)
(***************************************************************************)
\* files of arbitrary kind at the head of an upload list
MaxPrefix == 2
\* longest upload list (one more than the program accepts)
MaxFiles == 11
\* longest remote reply, in tokens
MaxReplyLen == 5
\* longest failure message of the remote client, in words
MaxMsgLen == 2

(***************************************************************************)
(* Text of a form field.  Only its length and the length of what strip()   *)
(* leaves are used by the code, so a text is lead whitespace characters,   *)
(* core characters that start and end with a non-whitespace character      *)
(* (core = 0: the text is all whitespace), and trail whitespace            *)
(* characters.  none = TRUE is Python's None.                              *)
(***************************************************************************)
Text(l, c, t) == [none |-> FALSE, lead |-> l, core |-> c, trail |-> t]

NoneText == [none |-> TRUE, lead |-> 0, core |-> 0, trail |-> 0]

\* len(s)
StrLen(s) == s.lead + s.core + s.trail

\* s.strip()
Strip(s) == IF s.core = 0 THEN Text(0, 0, 0) ELSE Text(0, s.core, 0)

\* Python truthiness of a str or None
Truthy(s) == ~s.none /\ StrLen(s) > 0

UserIds == {Text(0, 0, 0), Text(2, 0, 0), Text(1, 2, 1)}

Descriptions ==
    {NoneText, Text(0, 0, 0), Text(1, 0, 1), Text(0, 5, 0), Text(1, 5, 0),
     Text(0, MaxDescriptionLen, 0), Text(0, MaxDescriptionLen, 1),
     Text(0, MaxDescriptionLen + 1, 0), Text(MaxDescriptionLen + 1, 0, 0)}

(***************************************************************************)
(* Uploaded files: filename, declared content type, extension of the       *)
(* lower-cased filename, byte length of the content, and whether read()    *)
(* raises.                                                                 *)
(***************************************************************************)
UploadFile(name, ctype, ext, n, bad) ==
    [filename |-> name, content_type |-> ctype, ext |-> ext, size |-> n,
     readError |-> bad]

FileKinds ==
    {UploadFile("empty.png", "image/png", ".png", 0, FALSE),
     UploadFile("a.png", "image/png", ".png", 1, FALSE),
     UploadFile("big.GIF", "application/octet-stream", ".gif", max_size, FALSE),
     UploadFile("huge.jpg", "image/jpeg", ".jpg", max_size + 1, FALSE),
     UploadFile("broken.bmp", "", ".bmp", 7, TRUE)}

PadFile == UploadFile("photo.heic", "", ".heic", 3, FALSE)

SeqsUpTo(S, n) == UNION {[1..k -> S] : k \in 0..n}

Pad(p, n) == [i \in 1..n |-> IF i <= Len(p) THEN p[i] ELSE PadFile]

\* an arbitrary prefix followed by well-formed files, up to MaxFiles files
FileLists ==
    {Pad(p, n) : p \in SeqsUpTo(FileKinds, MaxPrefix), n \in 0..MaxFiles}

NoFiles == [none |-> TRUE, list |-> <<>>]

Uploads == {NoFiles} \cup {[none |-> FALSE, list |-> l] : l \in FileLists}

(***************************************************************************)
(* determine_mime_type                                                     *)
(***************************************************************************)
\* content_type.startswith('image/'), over the content types of FileKinds
StartsWithImage(content_type) ==
    content_type \in {"image/png", "image/jpeg", "image/gif"}

extension_mapping(e) ==
    CASE e = ".jpg" -> "image/jpeg"
      [] e = ".jpeg" -> "image/jpeg"
      [] e = ".png" -> "image/png"
      [] e = ".webp" -> "image/webp"
      [] e = ".gif" -> "image/gif"
      [] e = ".bmp" -> "image/bmp"
      [] e = ".tiff" -> "image/tiff"
      [] e = ".tif" -> "image/tiff"
      [] e = ".svg" -> "image/svg+xml"
      [] OTHER -> "image/jpeg"

determine_mime_type(content_type, file_extension) ==
    IF StartsWithImage(content_type) THEN content_type
    ELSE extension_mapping(file_extension)

(***************************************************************************)
(* validate_description                                                    *)
(***************************************************************************)
\* the length is taken after strip()
validate_description_stripped(d) ==
    IF d.none THEN TRUE ELSE StrLen(Strip(d)) <= MaxDescriptionLen

validate_description(d) ==
    IF d.none THEN TRUE ELSE StrLen(d) <= MaxDescriptionLen

(***************************************************************************)
(* JSON values as Python's json.loads returns them.  t is the Python type: *)
(* "int", "float" (v in tenths, so 725 is 72.5), "inf" (a float that is    *)
(* not finite, what 1e999 or Infinity parses to; v is its sign), "bool",   *)
(* "str" (s is the characters), "null", "list".                            *)
(***************************************************************************)
JInt(n) == [t |-> "int", v |-> n, s |-> <<>>]

JFloat(tenths) == [t |-> "float", v |-> tenths, s |-> <<>>]

JInf(sign) == [t |-> "inf", v |-> sign, s |-> <<>>]

JBool(b) == [t |-> "bool", v |-> IF b THEN 1 ELSE 0, s |-> <<>>]

JStr(chars) == [t |-> "str", v |-> 0, s |-> chars]

JNull == [t |-> "null", v |-> 0, s |-> <<>>]

JList == [t |-> "list", v |-> 0, s |-> <<>>]

\* the values the reply's "confidence" member takes
ConfValues ==
    {JInt(-5), JInt(0), JInt(80), JInt(100), JInt(150),
     JFloat(725), JFloat(-5), JInf(1), JBool(TRUE), JNull, JList,
     JStr(<<"a", "b", " ", "7", "2", " ", "p", "c">>),
     JStr(<<"1", "5", "0", "%">>),
     JStr(<<"h", "i", "g", "h">>)}

\* the values of "low" inside the reply's "estimated_price" member
LowValues == {JInt(50), JInf(1)}

(***************************************************************************)
(* Reply text of the remote model, as a sequence of tokens:                *)
(*   "{" "}"  braces;  "w" prose without braces that is not JSON;          *)
(*   "n"      a bare JSON number;                                          *)
(*   "conf"   the member  "confidence": <conf>  ;                          *)
(*   "issue"  the member  "detected_issue": "Leaky faucet" ;               *)
(*   "price"  the member  "estimated_price": {"low": <low>, "high": 150}.  *)
(* Members carry their separating commas.  A reply is the tokens with the  *)
(* two literals <conf> and <low>.                                          *)
(***************************************************************************)
Tokens == {"{", "}", "w", "n", "conf", "issue", "price"}

RECURSIVE Expand(_)
\* the characters of the text, grouped: "price" holds braces of its own
Expand(toks) ==
    IF toks = <<>> THEN <<>>
    ELSE (IF Head(toks) = "price" THEN <<"price:", "{", "lowhigh", "}">>
          ELSE <<Head(toks)>>) \o Expand(Tail(toks))

Positions(a, c) == {i \in 1..Len(a) : a[i] = c}

SetMin(S) == CHOOSE x \in S : \A y \in S : x <= y

SetMax(S) == CHOOSE x \in S : \A y \in S : x >= y

\* re.search(r'\{.*\}', result_text, re.DOTALL): from the first '{' to the
\* last '}' of the text (the greedy .* crosses everything, newlines too)
re_search(a) ==
    LET opens == Positions(a, "{")
        closes == Positions(a, "}")
    IN IF opens # {} /\ closes # {} /\ SetMax(closes) > SetMin(opens)
       THEN [found |-> TRUE, group |-> SubSeq(a, SetMin(opens), SetMax(closes))]
       ELSE [found |-> FALSE, group |-> <<>>]

ParseFail == [ok |-> FALSE, keys |-> {}, rest |-> <<>>]

RECURSIVE ParseMembers(_, _)
\* the members of an object up to its closing brace; a "price:" key takes an
\* object as its value
ParseMembers(a, keys) ==
    IF a = <<>> THEN ParseFail
    ELSE CASE Head(a) = "}" -> [ok |-> TRUE, keys |-> keys, rest |-> Tail(a)]
           [] Head(a) = "conf" -> ParseMembers(Tail(a), keys \cup {"confidence"})
           [] Head(a) = "issue" ->
                ParseMembers(Tail(a), keys \cup {"detected_issue"})
           [] Head(a) = "lowhigh" ->
                ParseMembers(Tail(a), keys \cup {"low", "high"})
           [] Head(a) = "price:" ->
                IF Len(a) >= 2 /\ a[2] = "{"
                THEN LET inner == ParseMembers(Tail(Tail(a)), {})
                     IN IF inner.ok
                        THEN ParseMembers(inner.rest,
                                          keys \cup {"estimated_price"})
                        ELSE ParseFail
                ELSE ParseFail
           [] OTHER -> ParseFail

\* json.loads(text): a dict, a value that is not a dict, or JSONDecodeError
json_loads(a) ==
    IF a = <<"n">> THEN [ok |-> TRUE, dict |-> FALSE, keys |-> {}]
    ELSE IF a # <<>> /\ Head(a) = "{"
    THEN LET r == ParseMembers(Tail(a), {})
         IN IF r.ok /\ r.rest = <<>>
            THEN [ok |-> TRUE, dict |-> TRUE, keys |-> r.keys]
            ELSE [ok |-> FALSE, dict |-> FALSE, keys |-> {}]
    ELSE [ok |-> FALSE, dict |-> FALSE, keys |-> {}]

(***************************************************************************)
(* Confidence normalisation, main.py:176-191.                              *)
(***************************************************************************)
Digits == {"0", "1", "2", "3", "4", "5", "6", "7", "8", "9"}

DigitVal(c) ==
    CASE c = "0" -> 0 [] c = "1" -> 1 [] c = "2" -> 2 [] c = "3" -> 3
      [] c = "4" -> 4 [] c = "5" -> 5 [] c = "6" -> 6 [] c = "7" -> 7
      [] c = "8" -> 8 [] c = "9" -> 9

RECURSIVE DropNonDigits(_)
DropNonDigits(cs) ==
    IF cs = <<>> \/ Head(cs) \in Digits THEN cs ELSE DropNonDigits(Tail(cs))

RECURSIVE TakeDigits(_)
TakeDigits(cs) ==
    IF cs = <<>> \/ Head(cs) \notin Digits THEN <<>>
    ELSE <<Head(cs)>> \o TakeDigits(Tail(cs))

\* re.match in place of re.findall: digits count only at the start
LeadingDigitRun(cs) == TakeDigits(cs)

\* re.findall(r'\d+', confidence), its first element (<<>> when it is empty)
FirstDigitRun(cs) == TakeDigits(DropNonDigits(cs))

RECURSIVE ParseInt(_, _)
\* int(numbers[0])
ParseInt(ds, acc) ==
    IF ds = <<>> THEN acc ELSE ParseInt(Tail(ds), 10 * acc + DigitVal(Head(ds)))

\* int(x) of a finite float held in tenths: truncation toward zero
TruncTenths(x) == IF x >= 0 THEN x \div 10 ELSE -((-x) \div 10)

Min(a, b) == IF a <= b THEN a ELSE b

Max(a, b) == IF a >= b THEN a ELSE b

\* max(0, min(100, n))
Clamp(n) == Max(0, Min(100, n))

\* main.py:180-191; raised: int(confidence) raises OverflowError
NormalizeConfidence(c) ==
    IF c.t = "str"
    THEN LET numbers == FirstDigitRun(c.s)
         IN [raised |-> FALSE,
             value |-> Clamp(IF numbers # <<>> THEN ParseInt(numbers, 0) ELSE 50)]
    ELSE IF c.t \notin {"int", "float", "inf", "bool"}
    THEN [raised |-> FALSE, value |-> Clamp(50)]
    ELSE IF c.t = "inf"
    THEN [raised |-> TRUE, value |-> 0]
    ELSE [raised |-> FALSE,
          value |-> Clamp(IF c.t = "float" THEN TruncTenths(c.v) ELSE c.v)]

(***************************************************************************)
(* Outcome of client.chat.completions.create: a reply text, a reply whose  *)
(* message.content is None, or an exception with a message.                *)
(***************************************************************************)
Outcome(k, text, conf, low, msg) ==
    [kind |-> k, text |-> text, conf |-> conf, low |-> low, msg |-> msg]

NoOutcome == Outcome("none", <<>>, JInt(0), JInt(0), <<>>)

Occurs(tok, text) == \E i \in 1..Len(text) : text[i] = tok

\* a literal is varied only in the replies whose text holds its member
Replies(texts) ==
    {r \in [kind : {"text"}, text : texts, conf : ConfValues,
            low : LowValues, msg : {<<>>}] :
        /\ Occurs("conf", r.text) \/ r.conf = JInt(80)
        /\ Occurs("price", r.text) \/ r.low = JInt(50)}

NoContent == Outcome("nocontent", <<>>, JInt(0), JInt(0), <<>>)

\* words of the failure messages of the remote client
RemoteWords ==
    {"rate_limit_exceeded", "Rate_Limit", "invalid_api_key", "INVALID_API_KEY",
     "timeout"}

\* the message is searched as it is, without lower()
LowerOmitted(w) == w

\* str.lower() of a word
Lower(w) ==
    CASE w = "Rate_Limit" -> "rate_limit"
      [] w = "INVALID_API_KEY" -> "invalid_api_key"
      [] w = "JSONDecodeError" -> "jsondecodeerror"
      [] w = "TypeError" -> "typeerror"
      [] w = "AttributeError" -> "attributeerror"
      [] w = "OverflowError" -> "overflowerror"
      [] OTHER -> w

\* marker in word, for the lower-case words of the model
SubstringOf(marker, w) ==
    \/ w = marker
    \/ marker = "rate_limit" /\ w = "rate_limit_exceeded"

\* marker in error_msg.lower()
Contains(marker, msg) ==
    \E i \in 1..Len(msg) : SubstringOf(marker, Lower(msg[i]))

(***************************************************************************)
(* The dict that main.py:158-174 leaves in analysis_result, or the         *)
(* exception raised there.                                                 *)
(***************************************************************************)
Price(l, h) == [low |-> l, high |-> h]

Dict(keys, r) ==
    [keys |-> keys, confidence |-> r.conf, detected_issue |-> "Leaky faucet",
     severity |-> "High Severity", description |-> "Washer is worn",
     estimated_price |-> Price(r.low, JInt(150))]

\* a parsed object: the "issue" member stands for the three text members
ParsedDict(keys, r) ==
    Dict(keys \cup (IF "detected_issue" \in keys
                    THEN {"severity", "description"} ELSE {}), r)

FallbackDict ==
    [keys |-> {"detected_issue", "severity", "description", "estimated_price",
               "confidence"},
     confidence |-> JInt(0), detected_issue |-> "Analysis Error",
     severity |-> "Medium Severity",
     description |-> "Unable to parse AI response. Please try again with clearer information.",
     estimated_price |-> Price(JInt(0), JInt(0))]

Raised(e) == [raised |-> TRUE, exc |-> e, dict |-> FallbackDict]

Returned(d) == [raised |-> FALSE, exc |-> "", dict |-> d]

\* main.py:156-174
ExtractJson(r) ==
    IF r.kind = "nocontent" THEN Raised("TypeError")
    ELSE LET result_text == Expand(r.text)
             json_match == re_search(result_text)
         IN IF json_match.found
            THEN LET j == json_loads(json_match.group)
                 IN IF j.ok THEN Returned(ParsedDict(j.keys, r))
                    ELSE Raised("JSONDecodeError")
            ELSE LET j == json_loads(result_text)
                 IN IF ~j.ok THEN Returned(FallbackDict)
                    ELSE IF j.dict THEN Returned(ParsedDict(j.keys, r))
                    ELSE Raised("AttributeError")

\* dict.get(key, default)
DictGet(d, key, default) == IF key \in d.keys THEN d[key] ELSE default

NoError == [present |-> FALSE, words |-> <<>>]

ErrorMessage(words) == [present |-> TRUE, words |-> words]

NoEnvelope ==
    [user_id |-> NoneText, detected_issue |-> "", severity |-> "",
     description |-> "", estimated_price |-> Price(JInt(0), JInt(0)),
     accuracy |-> -1, success |-> FALSE, request_id |-> 0,
     error_message |-> NoError, images_analyzed |-> -1,
     has_user_description |-> "absent", images_analyzed_count |-> -1]

\* main.py:176-208; request_id is the first id generated for the request
BuildResult(uid, images, user_description, analysis, confidence) ==
    [user_id |-> uid,
     detected_issue |-> DictGet(analysis, "detected_issue", "Unknown Issue"),
     severity |-> DictGet(analysis, "severity", "Medium Severity"),
     description |-> DictGet(analysis, "description", "No description provided"),
     estimated_price |->
         DictGet(analysis, "estimated_price", Price(JInt(0), JInt(0))),
     accuracy |-> confidence,
     success |-> TRUE,
     request_id |-> 1,
     error_message |-> NoError,
     images_analyzed |-> Len(images),
     has_user_description |->
         IF ~user_description.none /\ StrLen(Strip(user_description)) > 0
         THEN "true" ELSE "false",
     images_analyzed_count |-> -1]

\* main.py:210-251; request_id is the second id generated for the request
ErrorResponse(uid, error_msg) ==
    LET base == [NoEnvelope EXCEPT !.user_id = uid,
                                   !.severity = "Low Severity",
                                   !.accuracy = 0,
                                   !.request_id = 2,
                                   !.success = FALSE]
    IN IF Contains("rate_limit", error_msg)
       THEN [base EXCEPT !.detected_issue = "Service Error",
                         !.description = "Rate limit exceeded. Please try again later.",
                         !.error_message = ErrorMessage(<<"Rate limit exceeded">>)]
       ELSE IF Contains("invalid_api_key", error_msg)
       THEN [base EXCEPT !.detected_issue = "Service Error",
                         !.description = "Server configuration issue. Please contact support.",
                         !.error_message = ErrorMessage(<<"Authentication error">>)]
       ELSE [base EXCEPT !.detected_issue = "Analysis Failed",
                         !.description = "AI analysis failed: ",
                         !.error_message = ErrorMessage(error_msg)]

(***************************************************************************)
(* State of one request.                                                   *)
(***************************************************************************)
VARIABLES
    user_id,          \* form field user_id
    description,      \* form field description, or None
    files,            \* uploaded files, or None
    pc,               \* position in analyze_issues
    idx,              \* process_files: index of the next file of the loop
    processed_files,  \* process_files: accepted files
    errors,           \* process_files: rejected files with their reason
    reads,            \* number of file.read() calls made
    images_data,      \* analyze_issues: images handed to the analysis
    remoteCalls,      \* number of client.chat.completions.create calls made
    remote,           \* outcome of the remote call
    error_msg,        \* analyze_with_openai: str(e) of the caught exception
    analysis_result,  \* analyze_issues: envelope returned by the analysis
    response,         \* response sent to the caller
    responses         \* number of responses sent

vars ==
    <<user_id, description, files, pc, idx, processed_files, errors, reads,
      images_data, remoteCalls, remote, error_msg, analysis_result, response,
      responses>>

request == <<user_id, description, files>>

upload == <<idx, processed_files, errors, reads>>

NoDetail ==
    [error |-> "", message |-> "", field |-> "", count |-> 0, errors |-> <<>>,
     success |-> FALSE]

NoResponse == [status |-> 0, body |-> "none", detail |-> NoDetail]

\* HTTPException(status_code=..., detail={...})
HTTPException(code, error, message, field, errs) ==
    [status_code |-> code, is_dict |-> TRUE,
     detail |-> [error |-> error, message |-> message, field |-> field,
                 count |-> Len(errs), errors |-> errs, success |-> FALSE]]

\* http_exception_handler: the detail dict becomes the JSON body
http_exception_handler(exc) ==
    [status |-> exc.status_code, body |-> "json",
     detail |-> IF exc.is_dict THEN exc.detail
                ELSE [NoDetail EXCEPT !.error = "HTTP Exception"]]

\* raise HTTPException(...) inside analyze_issues: the handler answers
Raise(exc) ==
    /\ response' = http_exception_handler(exc)
    /\ responses' = responses + 1
    /\ pc' = "done"

InitLocals ==
    /\ idx = 1
    /\ processed_files = <<>>
    /\ errors = <<>>
    /\ reads = 0
    /\ images_data = <<>>
    /\ remoteCalls = 0
    /\ remote = NoOutcome
    /\ error_msg = <<>>
    /\ analysis_result = NoEnvelope
    /\ response = NoResponse
    /\ responses = 0

Init ==
    /\ user_id \in UserIds
    /\ description \in Descriptions
    /\ files \in Uploads
    /\ pc = "validate_user_id"
    /\ InitLocals

has_images == ~files.none /\ Len(files.list) > 0

has_description == ~description.none /\ StrLen(Strip(description)) > 0

\* main.py:392-402
ValidateUserId ==
    /\ pc = "validate_user_id"
    /\ IF ~Truthy(user_id) \/ ~Truthy(Strip(user_id))
       THEN Raise(HTTPException(400, "Validation error",
                                "user_id is required and cannot be empty",
                                "user_id", <<>>))
       ELSE /\ pc' = "validate_description"
            /\ UNCHANGED <<response, responses>>
    /\ UNCHANGED <<request, upload, images_data, remoteCalls, remote,
                   error_msg, analysis_result>>

\* main.py:404-414
ValidateDescription ==
    /\ pc = "validate_description"
    /\ IF ~validate_description(description)
       THEN Raise(HTTPException(400, "Validation error",
                                "Description too long. Maximum 2000 characters allowed.",
                                "description", <<>>))
       ELSE /\ pc' = "check_inputs"
            /\ UNCHANGED <<response, responses>>
    /\ UNCHANGED <<request, upload, images_data, remoteCalls, remote,
                   error_msg, analysis_result>>

\* main.py:416-428
CheckInputs ==
    /\ pc = "check_inputs"
    /\ IF ~has_images /\ ~has_description
       THEN Raise(HTTPException(400, "Validation error",
                                "At least one input is required: either images or description",
                                "", <<>>))
       ELSE /\ pc' = IF has_images THEN "check_count" ELSE "call"
            /\ UNCHANGED <<response, responses>>
    /\ UNCHANGED <<request, upload, images_data, remoteCalls, remote,
                   error_msg, analysis_result>>

\* the count check is missing
CheckImageCountOmitted ==
    /\ pc = "check_count"
    /\ pc' = "process_files"
    /\ UNCHANGED <<request, upload, images_data, remoteCalls, remote,
                   error_msg, analysis_result, response, responses>>

\* main.py:433-442
CheckImageCount ==
    /\ pc = "check_count"
    /\ IF Len(files.list) > MaxImages
       THEN Raise(HTTPException(400, "Validation error",
                                "Too many images. Maximum 10 images allowed.",
                                "", <<>>))
       ELSE /\ pc' = "process_files"
            /\ UNCHANGED <<response, responses>>
    /\ UNCHANGED <<request, upload, images_data, remoteCalls, remote,
                   error_msg, analysis_result>>

\* f"{len(contents)/1024/1024:.2f}", in hundredths of a MB
SizeInMB(n) ==
    LET MB == 1024 * 1024
    IN 100 * (n \div MB) + (200 * (n % MB) + MB) \div (2 * MB)

Rejected(file, reason, mb) ==
    [filename |-> file.filename, error |-> reason, mb |-> mb]

\* the size bound is excluded: len(contents) >= max_size
ExamineFileExclusive(file) ==
    IF file.readError
    THEN [accepted |-> FALSE, item |-> Rejected(file, "Processing error: ", 0)]
    ELSE IF file.size = 0
    THEN [accepted |-> FALSE, item |-> Rejected(file, "File is empty", 0)]
    ELSE IF file.size >= max_size
    THEN [accepted |-> FALSE,
          item |-> Rejected(file, "File too large", SizeInMB(file.size))]
    ELSE [accepted |-> TRUE,
          item |-> [filename |-> file.filename,
                    mime_type |-> determine_mime_type(file.content_type,
                                                      file.ext),
                    size_bytes |-> file.size]]

\* main.py:262-297, what one iteration of the loop of process_files appends:
\* a rejection to errors, or the file to processed_files
ExamineFile(file) ==
    IF file.readError
    THEN [accepted |-> FALSE, item |-> Rejected(file, "Processing error: ", 0)]
    ELSE IF file.size = 0
    THEN [accepted |-> FALSE, item |-> Rejected(file, "File is empty", 0)]
    ELSE IF file.size > max_size
    THEN [accepted |-> FALSE,
          item |-> Rejected(file, "File too large", SizeInMB(file.size))]
    ELSE [accepted |-> TRUE,
          item |-> [filename |-> file.filename,
                    mime_type |-> determine_mime_type(file.content_type,
                                                      file.ext),
                    size_bytes |-> file.size]]

\* main.py:260-297, one iteration of the loop of process_files
ProcessFile ==
    /\ pc = "process_files"
    /\ idx <= Len(files.list)
    /\ LET r == ExamineFile(files.list[idx])
       IN IF r.accepted
          THEN /\ processed_files' = Append(processed_files, r.item)
               /\ UNCHANGED errors
          ELSE /\ errors' = Append(errors, r.item)
               /\ UNCHANGED processed_files
    /\ reads' = reads + 1
    /\ idx' = idx + 1
    /\ UNCHANGED <<request, pc, images_data, remoteCalls, remote, error_msg,
                   analysis_result, response, responses>>

\* main.py:299-302 and 445-463: process_files returns, analyze_issues goes on
CheckProcessingErrors ==
    /\ pc = "process_files"
    /\ idx > Len(files.list)
    /\ IF errors # <<>>
       THEN /\ Raise(HTTPException(400, "File processing error",
                                   "Failed to process file(s)", "", errors))
            /\ UNCHANGED images_data
       ELSE /\ images_data' =
                  [i \in 1..Len(processed_files) |->
                      [size_bytes |-> processed_files[i].size_bytes,
                       mime_type |-> processed_files[i].mime_type]]
            /\ pc' = "call"
            /\ UNCHANGED <<response, responses>>
    /\ UNCHANGED <<request, upload, remoteCalls, remote, error_msg,
                   analysis_result>>

\* the text-only call is made after the vision call instead of in its place
CallRemoteTwice ==
    /\ pc = "call"
    /\ remoteCalls' = remoteCalls + (IF images_data # <<>> THEN 2 ELSE 1)
    /\ pc' = "await"
    /\ UNCHANGED <<request, upload, images_data, remote, error_msg,
                   analysis_result, response, responses>>

\* main.py:466-470 and 86-153: analyze_with_openai is entered and issues the
\* one request to the remote model
CallRemote ==
    /\ pc = "call"
    /\ remoteCalls' = remoteCalls + 1
    /\ pc' = "await"
    /\ UNCHANGED <<request, upload, images_data, remote, error_msg,
                   analysis_result, response, responses>>

\* the remote call returns the reply r
Returns(r) ==
    /\ pc = "await"
    /\ remote' = r
    /\ pc' = "parse"
    /\ UNCHANGED <<request, upload, images_data, remoteCalls, error_msg,
                   analysis_result, response, responses>>

\* the remote call raises an exception whose str() is msg
Raises(msg) ==
    /\ pc = "await"
    /\ remote' = Outcome("raise", <<>>, JInt(0), JInt(0), msg)
    /\ error_msg' = msg
    /\ pc' = "except"
    /\ UNCHANGED <<request, upload, images_data, remoteCalls,
                   analysis_result, response, responses>>

\* main.py:155-208
ParseReply ==
    /\ pc = "parse"
    /\ LET x == ExtractJson(remote)
           c == NormalizeConfidence(DictGet(x.dict, "confidence", JInt(0)))
       IN IF x.raised
          THEN /\ error_msg' = <<x.exc>>
               /\ pc' = "except"
               /\ UNCHANGED analysis_result
          ELSE IF c.raised
          THEN /\ error_msg' = <<"OverflowError">>
               /\ pc' = "except"
               /\ UNCHANGED analysis_result
          ELSE /\ analysis_result' =
                     BuildResult(user_id, images_data,
                                 IF has_description THEN description ELSE NoneText,
                                 x.dict, c.value)
               /\ pc' = "respond"
               /\ UNCHANGED error_msg
    /\ UNCHANGED <<request, upload, images_data, remoteCalls, remote,
                   response, responses>>

\* main.py:210-251
HandleException ==
    /\ pc = "except"
    /\ analysis_result' = ErrorResponse(user_id, error_msg)
    /\ pc' = "respond"
    /\ UNCHANGED <<request, upload, images_data, remoteCalls, remote,
                   error_msg, response, responses>>

\* json.dumps(content, allow_nan=False) of JSONResponse: a float that is not
\* finite cannot be rendered
Renderable(env) ==
    /\ env.estimated_price.low.t # "inf"
    /\ env.estimated_price.high.t # "inf"

\* main.py:472-485
Respond ==
    /\ pc = "respond"
    /\ LET result == [analysis_result EXCEPT
                          !.images_analyzed_count = Len(images_data)]
       IN /\ analysis_result' = result
          /\ response' =
                IF ~Renderable(result)
                THEN [status |-> 500, body |-> "unhandled", detail |-> NoDetail]
                ELSE [status |-> IF result.success THEN 200 ELSE 500,
                      body |-> "envelope", detail |-> NoDetail]
    /\ responses' = responses + 1
    /\ pc' = "done"
    /\ UNCHANGED <<request, upload, images_data, remoteCalls, remote,
                   error_msg>>

(***************************************************************************)
(* Specification of a whole request.  The remote model answers with one    *)
(* of a few replies.                                                       *)
(***************************************************************************)
SampleTexts ==
    {<<"{", "issue", "price", "conf", "}">>,
     <<"w", "{", "conf", "}", "w">>,
     <<"w", "w">>,
     <<"{", "w", "}">>,
     <<"{", "conf", "}", "w", "{", "w", "}">>}

SampleReplies == Replies(SampleTexts) \cup {NoContent}

RemoteReturns == pc = "await" /\ \E r \in SampleReplies : Returns(r)

Messages == SeqsUpTo(RemoteWords, MaxMsgLen)

RemoteRaises == pc = "await" /\ \E m \in Messages : Raises(m)

Next ==
    \/ ValidateUserId
    \/ ValidateDescription
    \/ CheckInputs
    \/ CheckImageCount
    \/ ProcessFile
    \/ CheckProcessingErrors
    \/ CallRemote
    \/ RemoteReturns
    \/ RemoteRaises
    \/ ParseReply
    \/ HandleException
    \/ Respond

Spec == Init /\ [][Next]_vars

(***************************************************************************)
(* Specification of the normalisation: a request that passes validation,   *)
(* and every reply text of up to MaxReplyLen tokens.                       *)
(***************************************************************************)
InitNorm ==
    /\ user_id = Text(1, 2, 1)
    /\ description = Text(1, 5, 0)
    /\ files = [none |-> FALSE, list |-> Pad(<<>>, 1)]
    /\ pc = "validate_user_id"
    /\ InitLocals

AllTexts == SeqsUpTo(Tokens, MaxReplyLen)

AllReplies == Replies(AllTexts) \cup {NoContent}

RemoteReturnsAny == pc = "await" /\ \E r \in AllReplies : Returns(r)

NextNorm ==
    \/ ValidateUserId
    \/ ValidateDescription
    \/ CheckInputs
    \/ CheckImageCount
    \/ ProcessFile
    \/ CheckProcessingErrors
    \/ CallRemote
    \/ RemoteReturnsAny
    \/ RemoteRaises
    \/ ParseReply
    \/ HandleException
    \/ Respond

SpecNorm == InitNorm /\ [][NextNorm]_vars

(***************************************************************************)
(* Properties.                                                             *)
(***************************************************************************)
\* user_id is blank after trimming
BlankUserId == user_id.core = 0

\* the description is longer than 2000 characters
TooLong == ~description.none /\ StrLen(description) > 2000

\* neither a non-empty file list nor a non-blank description
NoInput ==
    /\ files.none \/ Len(files.list) = 0
    /\ description.none \/ description.core = 0

\* more than 10 files
TooMany == ~files.none /\ Len(files.list) > 10

\* a file the upload validator accepts: readable, of 1..20*1024*1024 bytes
InRange(f) == ~f.readError /\ f.size >= 1 /\ f.size <= 20971520

OutOfRange(f) == ~InRange(f)

SomeRejected ==
    ~files.none /\ \E i \in 1..Len(files.list) : OutOfRange(files.list[i])

InvalidRequest == BlankUserId \/ TooLong \/ NoInput \/ TooMany \/ SomeRejected

\* C1: a request that fails any validation (blank user_id, description over
\* 2000 characters, no input, more than 10 files, a rejected file) never
\* reaches the remote client and is answered with HTTP 400.
C1_NoRemoteCallOnInvalid ==
    InvalidRequest =>
        /\ remoteCalls = 0
        /\ pc = "done" => response.status = 400 /\ response.body = "json"

C1_Witness ==
    /\ pc = "done"
    /\ SomeRejected /\ ~BlankUserId /\ ~TooLong /\ ~TooMany
    /\ response.status = 400
    /\ remoteCalls = 0

\* no stretch of the text is valid JSON, so neither the span from the first
\* '{' to the last '}' nor the whole reply is
NoParsableJson(r) ==
    LET a == Expand(r.text)
    IN \A i \in 1..Len(a) : \A j \in i..Len(a) :
          ~json_loads(SubSeq(a, i, j)).ok

IsFallback(env) ==
    /\ env.success
    /\ env.detected_issue = "Analysis Error"
    /\ env.severity = "Medium Severity"
    /\ env.estimated_price = Price(JInt(0), JInt(0))
    /\ env.accuracy = 0

\* C2: a reply text without parsable JSON, a reply whose brace span is not
\* valid JSON included, is answered with HTTP 200 and the fixed fallback
\* result (success = true, "Analysis Error", confidence 0).
C2_UnparsableReplyFallsBack ==
    pc = "done" /\ remote.kind = "text" /\ NoParsableJson(remote) =>
        response.status = 200 /\ IsFallback(analysis_result)

\* some stretch of the text is a JSON object with a confidence member
HoldsObjectWithConfidence(r) ==
    LET a == Expand(r.text)
    IN \E i \in 1..Len(a) : \E j \in i..Len(a) :
          LET o == json_loads(SubSeq(a, i, j))
          IN o.ok /\ o.dict /\ "confidence" \in o.keys

\* C3: a reply text that holds a valid JSON object with an integer
\* confidence in 0..100 is answered with a success envelope whose accuracy
\* is that confidence, whatever surrounds the object.
C3_ConfidenceFoundInProse ==
    /\ pc = "done" /\ remote.kind = "text"
    /\ HoldsObjectWithConfidence(remote)
    /\ remote.conf.t = "int" /\ remote.conf.v \in 0..100
    => /\ analysis_result.success
       /\ analysis_result.accuracy = remote.conf.v

\* the reply was parsed to an object, not replaced by the fallback
ParsedObject ==
    /\ remote.kind = "text"
    /\ ~ExtractJson(remote).raised
    /\ ExtractJson(remote).dict # FallbackDict

\* the reply was parsed to an object that has a confidence member
ParsedWithConfidence ==
    ParsedObject /\ "confidence" \in ExtractJson(remote).dict.keys

\* min(100, max(0, c)) of a number, as an integer: a float is held in tenths
\* and float infinity has only its sign
ClampedNumber(c) ==
    IF c.t = "inf" THEN (IF c.v > 0 THEN 100 ELSE 0)
    ELSE IF c.t = "float"
    THEN (IF c.v < 0 THEN 0 ELSE IF c.v > 1000 THEN 100 ELSE c.v \div 10)
    ELSE (IF c.v < 0 THEN 0 ELSE IF c.v > 100 THEN 100 ELSE c.v)

\* C4: accuracy is an integer in 0..100 in every envelope, and a numeric
\* confidence c of the parsed reply gives accuracy min(100, max(0, c)).
C4_ConfidenceClamped ==
    /\ pc \in {"respond", "done"} /\ response.status # 400 =>
          analysis_result.accuracy \in 0..100
    /\ pc = "done" /\ ParsedWithConfidence
       /\ remote.conf.t \in {"int", "float", "inf"} =>
          analysis_result.accuracy = ClampedNumber(remote.conf)

\* what the claim gives for the texts and the other values of ConfValues
ExpectedConfidence(c) ==
    CASE c = JStr(<<"a", "b", " ", "7", "2", " ", "p", "c">>) -> 72
      [] c = JStr(<<"1", "5", "0", "%">>) -> 100
      [] c = JStr(<<"h", "i", "g", "h">>) -> 50
      [] c = JNull -> 50
      [] c = JList -> 50

C6_StructuredResponse ==
    pc = "done" =>
        /\ responses = 1
        /\ response.body \in {"json", "envelope"}
        /\ IF InvalidRequest
           THEN /\ response.status = 400
                /\ response.body = "json"
                /\ ~response.detail.success
           ELSE /\ response.body = "envelope"
                /\ response.status = 200 <=> analysis_result.success
                /\ response.status = 500 <=> ~analysis_result.success

RECURSIVE Names(_)
Names(fs) ==
    IF fs = <<>> THEN <<>> ELSE <<Head(fs).filename>> \o Names(Tail(fs))

\* C7: process_files puts every examined file in exactly one output, in
\* input order: 1..20*1024*1024 bytes is accepted with its length, 0 bytes
\* is rejected as "File is empty", more is rejected, and a rejection does
\* not stop the loop.
C7_ProcessFiles ==
    LET seen == SubSeq(files.list, 1, idx - 1)
    IN /\ reads = idx - 1
       /\ Names(processed_files) = Names(SelectSeq(seen, InRange))
       /\ Names(errors) = Names(SelectSeq(seen, OutOfRange))
       /\ \A i \in 1..Len(processed_files) :
             /\ processed_files[i].size_bytes \in 1..20971520
             /\ processed_files[i].size_bytes =
                   SelectSeq(seen, InRange)[i].size
       /\ \A i \in 1..Len(errors) :
             SelectSeq(seen, OutOfRange)[i].size = 0
             /\ ~SelectSeq(seen, OutOfRange)[i].readError
                => errors[i].error = "File is empty"
       /\ pc \in {"call", "await", "parse", "except", "respond"} \/ response.status \in {200, 500} =>
             idx = Len(files.list) + 1 /\ errors = <<>>
       /\ pc = "done" /\ response.detail.error = "File processing error" =>
             /\ idx = Len(files.list) + 1
             /\ response.detail.errors = errors
             /\ Len(errors) + Len(processed_files) = Len(files.list)

C7_Witness ==
    /\ pc = "done"
    /\ response.detail.error = "File processing error"
    /\ Len(errors) >= 1 /\ Len(processed_files) >= 1
    /\ OutOfRange(files.list[1])
    /\ \E i \in 1..Len(processed_files) :
          processed_files[i].size_bytes = 20971520

\* C8: the remote endpoint is called at most once per request, exactly once
\* when the request passes validation, and a failure of the call is answered
\* with the degraded envelope without a second call.
C8_AtMostOneRemoteCall ==
    /\ remoteCalls <= 1
    /\ pc = "done" /\ ~InvalidRequest => remoteCalls = 1
    /\ pc = "done" /\ remote.kind = "raise" =>
          /\ remoteCalls = 1
          /\ response.status = 500
          /\ ~analysis_result.success

C8_Witness ==
    /\ pc = "done"
    /\ remote.kind = "raise"
    /\ remoteCalls = 1
    /\ response.status = 500
    /\ images_data # <<>>

\* C9: the checks run in the order user_id, description length, presence of
\* an input, number of files, the files themselves, and the response names
\* the first that fails; with more than 10 files no file is read.
C9_FirstFailingCheck ==
    /\ TooMany => reads = 0
    /\ pc = "done" =>
          IF BlankUserId THEN response.detail.field = "user_id"
          ELSE IF TooLong THEN response.detail.field = "description"
          ELSE IF NoInput
          THEN response.detail.message =
                  "At least one input is required: either images or description"
          ELSE IF TooMany
          THEN response.detail.message =
                  "Too many images. Maximum 10 images allowed."
          ELSE IF SomeRejected
          THEN response.detail.error = "File processing error"
          ELSE response.status # 400

C9_Witness ==
    /\ pc = "done"
    /\ TooMany
    /\ OutOfRange(files.list[1])
    /\ response.detail.message = "Too many images. Maximum 10 images allowed."
    /\ reads = 0

HasWord(msg, S) == \E i \in 1..Len(msg) : msg[i] \in S

\* C10: a failed remote call gives success = false and accuracy 0, as rate
\* limited when the lower-cased message holds "rate_limit", else as
\* authentication when it holds "invalid_api_key", else as other with the
\* message itself.
C10_FailureCategories ==
    pc = "done" /\ remote.kind = "raise" =>
        /\ ~analysis_result.success
        /\ analysis_result.accuracy = 0
        /\ IF HasWord(remote.msg, {"rate_limit_exceeded", "Rate_Limit"})
           THEN analysis_result.error_message =
                   ErrorMessage(<<"Rate limit exceeded">>)
           ELSE IF HasWord(remote.msg, {"invalid_api_key", "INVALID_API_KEY"})
           THEN analysis_result.error_message =
                   ErrorMessage(<<"Authentication error">>)
           ELSE /\ analysis_result.detected_issue = "Analysis Failed"
                /\ analysis_result.error_message = ErrorMessage(remote.msg)

C10_Witness ==
    /\ pc = "done"
    /\ remote.kind = "raise"
    /\ remote.msg = <<"INVALID_API_KEY", "Rate_Limit">>
    /\ analysis_result.error_message = ErrorMessage(<<"Rate limit exceeded">>)

====
